---- MODULE Spec2Model ----
(***************************************************************************)
(* OAuth token lifecycle and local-callback login flow of the MCP servers  *)
(* (Google Calendar / Gmail client classes over the gcal auth module).     *)
(*                                                                         *)
(* Execution model: one Node.js event loop.  Every action below is one     *)
(* macrotask (a tool request arriving, an HTTP request reaching the local  *)
(* listener, a timer firing, a network round trip completing) together    *)
(* with all promise continuations (microtasks) that it triggers.           *)
(***************************************************************************)
EXTENDS Integers, Sequences, FiniteSets, TLC

\* Number of tool invocations (each may start at most one login flow).
MaxCalls == 3
\* Number of tool invocations plus login flows (performOAuthFlow invocations).
MaxWork == 4
\* Number of HTTP requests that reach the listeners, over all flows.
MaxReq == 2

Calls == 1..MaxCalls

\* null: no token file / no client handle / no credentials
Absent == [access |-> -1, refresh |-> FALSE, exp |-> "none"]

\* access-token identities: 1 is the record on disk at start-up, 0 is the
\* empty string '', -2 is a provider response without access_token
MissingAccess == 0 - 2
ExchId(c, r) == 10 * c + r
RefreshId(c) == 10 * c + 9

VARIABLES
  loggedOut,    \* history: a logout has completed and no token was saved since
  tokenFile,    \* content of the token file, Absent if the file does not exist
  calendar,     \* this.calendar / this.gmail: token the handle was built from, or Absent
  initPromise,  \* this.initPromise: id of the call whose doInitialize is in flight, 0 = null
  call,         \* the tool invocations
  flow,         \* the performOAuthFlow invocation of each call
  port,         \* which flow's server holds CALLBACK_PORT (0 = free)
  store,        \* the credential directory and files on disk, and the save in progress
  cli,          \* a run of a command-line auth helper
  aux,          \* the Auxia session file and the logins of authenticateWithSession
  probe         \* a check of a pure function: the inputs given and the answers

vars == <<loggedOut, tokenFile, calendar, initPromise, call, flow, port,
          store, cli, aux, probe>>
clientVars == <<loggedOut, tokenFile, calendar, initPromise, call, flow, port>>
helperVars == <<store, cli, aux, probe>>

\* att: the doInitialize attempt the call awaits (its own id if it started it);
\* tok: the local `token` of getAuthenticatedClient; rf: how its refresh ended
NoCall == [kind |-> "none", auto |-> FALSE, pc |-> "idle", att |-> 0,
           out |-> "pending", tok |-> Absent, rf |-> "none", op |-> "none"]

\* nreq: requests to the callback path so far; pend: those whose getToken is
\* pending; gets: getToken calls made; by: the event that settled the promise
\* (request number, -1 the timer, -2 the listen error, 0 none yet); page:
\* "success" once the handler has sent the "Authentication Successful!" page
NoFlow == [pc |-> "none", server |-> "none", promise |-> "pending",
           creds |-> Absent, err |-> "", thrown |-> "", timer |-> "none",
           nreq |-> 0, pend |-> {}, gets |-> 0, by |-> 0, n404 |-> 0,
           srvAtOpen |-> "none", page |-> "none"]

\* ------------------------------------------------------------------ auth.ts

\* isTokenExpired: no expiry date, or expiring within five minutes
IsTokenExpired(token) == token.exp # "fresh"

\* loadStoredToken: the parsed file, null when it does not exist
LoadStoredToken(tf) == tf

\* performOAuthFlow, lines 223-229: the StoredToken built from the credentials
StoredFrom(creds) ==
  [access  |-> IF creds.access = MissingAccess THEN 0 ELSE creds.access,
   refresh |-> creds.refresh,
   exp     |-> creds.exp]

\* faulty variant: the renewed record takes its refresh token from the response
RefreshedTokenFromResponse(token, creds) ==
  [access  |-> IF creds.access = MissingAccess THEN token.access ELSE creds.access,
   refresh |-> creds.refresh,
   exp     |-> creds.exp]

\* getAuthenticatedClient, lines 264-268: the token after a successful refresh
RefreshedToken(token, creds) ==
  [access  |-> IF creds.access = MissingAccess THEN token.access ELSE creds.access,
   refresh |-> token.refresh,
   exp     |-> creds.exp]

\* faulty variant: a missing token leads to the login whatever autoPopup says
AuthBranchAlwaysPopup(token, autoPopup) ==
  IF token # Absent /\ token.refresh /\ IsTokenExpired(token) THEN "refresh"
  ELSE IF token = Absent THEN "flow"
  ELSE "use"

\* getAuthenticatedClient up to its first await: which way it goes
AuthBranch(token, autoPopup) ==
  IF token # Absent /\ token.refresh /\ IsTokenExpired(token) THEN "refresh"
  ELSE IF token = Absent /\ autoPopup THEN "flow"
  ELSE IF token = Absent THEN "notauth"
  ELSE "use"

\* faulty variant: the catch block gives up instead of falling through to the login
AfterRefreshFailedGivesUp(autoPopup) == "notauth"

\* getAuthenticatedClient after the refresh failed (token = null)
AfterRefreshFailed(autoPopup) == IF autoPopup THEN "flow" ELSE "notauth"

\* performOAuthFlow up to `await open(authUrl)`: startCallbackServer has called
\* server.listen and armed the timer, and open() is called while the outcome of
\* the bind (srvAtOpen) has not been reported to the program yet
FlowAtOpen(busy) ==
  [NoFlow EXCEPT !.pc = "awaitOpen",
                 !.server = IF busy THEN "bindfail" ELSE "binding",
                 !.srvAtOpen = IF busy THEN "bindfail" ELSE "binding",
                 !.timer = "armed"]

\* faulty variant: the 'error' event of the server is not listened to
OnBindEventSilent(f) ==
  IF f.server = "binding"
  THEN [f EXCEPT !.server = "listening"]
  ELSE [f EXCEPT !.server = "failed"]

\* the 'listening' / 'error' event of server.listen, emitted on the next tick,
\* before any other request, timer or completion is handled
OnBindEvent(f) ==
  IF f.server = "binding"
  THEN [f EXCEPT !.server = "listening"]
  ELSE [f EXCEPT !.server = "failed", !.promise = "rejected",
                 !.err = "PortInUse", !.by = 0 - 2]

NewFlow(busy) == OnBindEvent(FlowAtOpen(busy))

\* ------------------------------------------------- CalendarClient / GmailClient

\* faulty variant: ensureInitialized without the initPromise check
EnsureBranchNoDedup(token, cal, ip, autoPopup) ==
  IF cal # Absent THEN "fast" ELSE AuthBranch(token, autoPopup)

\* ensureInitialized up to its first await
EnsureBranch(token, cal, ip, autoPopup) ==
  IF cal # Absent THEN "fast"
  ELSE IF ip # 0 THEN "join"
  ELSE AuthBranch(token, autoPopup)

\* faulty variant: only the initiator continues when the attempt settles
SettleAttemptInitiatorOnly(cl, a, out) ==
  [c \in Calls |->
     IF c = a /\ cl[c].att = a /\ cl[c].pc \in {"refresh", "flow"}
     THEN [cl[c] EXCEPT !.pc = "done", !.out = out]
     ELSE cl[c]]

\* the attempt a settles: its initiator and every caller that returned its
\* initPromise continue with the same outcome
SettleAttempt(cl, a, out) ==
  [c \in Calls |->
     IF cl[c].att = a /\ cl[c].pc \in {"refresh", "flow", "joined"}
     THEN [cl[c] EXCEPT !.pc = "done", !.out = out]
     ELSE cl[c]]

\* ensureInitialized(autoPopup) called by c with the given client state
EnsureResult(c, autoPopup, tf, cal, ip, cl) ==
  LET b  == EnsureBranch(LoadStoredToken(tf), cal, ip, autoPopup)
      me == [cl[c] EXCEPT !.auto = autoPopup]
  IN CASE b = "fast" ->
            [cal |-> cal, ip |-> ip, start |-> FALSE,
             cl |-> [cl EXCEPT ![c] = [me EXCEPT !.pc = "done", !.out = "ok"]]]
       [] b = "join" ->
            [cal |-> cal, ip |-> ip, start |-> FALSE,
             cl |-> [cl EXCEPT ![c] = [me EXCEPT !.pc = "joined", !.att = ip]]]
       [] b = "refresh" ->
            [cal |-> cal, ip |-> c, start |-> FALSE,
             cl |-> [cl EXCEPT ![c] = [me EXCEPT !.pc = "refresh", !.att = c,
                                                 !.tok = LoadStoredToken(tf)]]]
       [] b = "flow" ->
            [cal |-> cal, ip |-> c, start |-> TRUE,
             cl |-> [cl EXCEPT ![c] = [me EXCEPT !.pc = "flow", !.att = c]]]
       [] b = "notauth" ->
            [cal |-> cal, ip |-> 0, start |-> FALSE,
             cl |-> [cl EXCEPT ![c] = [me EXCEPT !.pc = "done", !.att = c,
                                                 !.out = "NotAuthenticated"]]]
       [] OTHER ->
            [cal |-> LoadStoredToken(tf), ip |-> 0, start |-> FALSE,
             cl |-> [cl EXCEPT ![c] = [me EXCEPT !.pc = "done", !.att = c,
                                                 !.tok = LoadStoredToken(tf),
                                                 !.out = "ok"]]]

\* performOAuthFlow of call c returns (ok) or throws (err) to its caller:
\* getAuthenticatedClient inside doInitialize (pc = "flow") or
\* CalendarClient.authenticate (pc = "login")
DeliverResult(c, ok, creds, err, tf, cal, ip, cl) ==
  LET token == StoredFrom(creds) IN
  IF ok
  THEN IF cl[c].pc = "flow"
       THEN [tf |-> token, cal |-> token, ip |-> 0,
             cl |-> SettleAttempt(cl, c, "ok")]
       ELSE LET r == EnsureResult(c, FALSE, token, Absent, ip, cl)
            IN [tf |-> token, cal |-> r.cal, ip |-> r.ip, cl |-> r.cl]
  ELSE IF cl[c].pc = "flow"
       THEN [tf |-> tf, cal |-> cal, ip |-> 0, cl |-> SettleAttempt(cl, c, err)]
       ELSE [tf |-> tf, cal |-> cal, ip |-> ip,
             cl |-> [cl EXCEPT ![c] = [@ EXCEPT !.pc = "done", !.out = err]]]

\* performOAuthFlow resumes after `await tokenPromise` with the settled promise
Return(c, f) ==
  LET ok == f.promise = "resolved"
      d  == DeliverResult(c, ok, f.creds, f.err, tokenFile, calendar, initPromise, call)
  IN /\ flow' = [flow EXCEPT ![c] = [f EXCEPT !.pc = IF ok THEN "returned" ELSE "threw",
                                              !.thrown = IF ok THEN "" ELSE f.err]]
     /\ tokenFile' = d.tf
     /\ calendar' = d.cal
     /\ initPromise' = d.ip
     /\ call' = d.cl
     /\ loggedOut' = (loggedOut /\ ~ok)

\* resolve(tokens) / reject(error) on the promise of startCallbackServer; f is
\* the flow after the handler's other effects; by names the settling event
Settle(c, f, ok, creds, err, by) ==
  IF f.promise # "pending"
  THEN /\ flow' = [flow EXCEPT ![c] = f]
       /\ UNCHANGED <<loggedOut, tokenFile, calendar, initPromise, call>>
  ELSE LET g == [f EXCEPT !.promise = IF ok THEN "resolved" ELSE "rejected",
                          !.creds = creds, !.err = err, !.by = by]
       IN IF g.pc = "awaitToken"
          THEN Return(c, g)
          ELSE /\ flow' = [flow EXCEPT ![c] = g]
               /\ UNCHANGED <<loggedOut, tokenFile, calendar, initPromise, call>>

\* server.close(): the port is released if this server holds it
Closed(srv) == IF srv \in {"listening", "closed"} THEN "closed" ELSE srv
PortAfterClose(c) == IF port = c THEN 0 ELSE port

\* faulty variant: the timer's server.close() frees the port whoever holds it
PortAfterShared(c, f) == IF f.server # "listening" THEN 0 ELSE port

\* the port after the timer callback of flow c has closed its own server
PortAfter(c, f) == IF port = c /\ f.server # "listening" THEN 0 ELSE port

\* ------------------------------------------------------------------ actions

RECURSIVE SumOver(_, _)
SumOver(f, S) ==
  IF S = {} THEN 0 ELSE LET x == CHOOSE y \in S : TRUE IN f[x] + SumOver(f, S \ {x})

FlowsStarted == Cardinality({c \in Calls : flow[c].pc # "none"})
CallsStarted == Cardinality({c \in Calls : call[c].kind # "none"})
\* room for one more login flow, after n more calls
Room(n) == CallsStarted + n + FlowsStarted < MaxWork
CanStart == Room(0)
TotalReq == SumOver([c \in Calls |-> flow[c].nreq], Calls)
TotalStray == SumOver([c \in Calls |-> flow[c].n404], Calls)

Fresh(c) ==
  /\ call[c].kind = "none"
  /\ IF c = 1 THEN TRUE ELSE call[c - 1].kind # "none"
  /\ CallsStarted + FlowsStarted < MaxWork

Started(c, kind) ==
  [call EXCEPT ![c] = [NoCall EXCEPT !.kind = kind]]

\* a tool operation (or main) calls ensureInitialized(autoPopup)
CallEnsure(c, autoPopup, ext) ==
  /\ UNCHANGED helperVars
  /\ Fresh(c)
  /\ LET r == EnsureResult(c, autoPopup, tokenFile, calendar, initPromise,
                           Started(c, "ensure"))
     IN /\ r.start => Room(1)
        /\ ext => r.start
        /\ calendar' = r.cal
        /\ initPromise' = r.ip
        /\ call' = r.cl
        /\ flow' = IF r.start THEN [flow EXCEPT ![c] = NewFlow(port # 0 \/ ext)] ELSE flow
        /\ port' = IF r.start /\ port = 0 /\ ~ext THEN c ELSE port
  /\ UNCHANGED <<loggedOut, tokenFile>>

\* the call's ensureInitialized() returned and the operation sent its first
\* API request through the handle
PassedEnsure(c) ==
  /\ call[c].kind = "ensure"
  /\ call[c].pc = "done"
  /\ call[c].out = "ok"

\* respondToEvent after `await this.calendar!.events.get(...)`: this.calendar
\* is read again for events.patch
SecondUse(cal) == IF cal = Absent THEN "null" ELSE "used"

\* the response to the first request of c's operation arrives
OpResume(c) ==
  /\ UNCHANGED helperVars
  /\ PassedEnsure(c)
  /\ call[c].op = "none"
  /\ call' = [call EXCEPT ![c].op = SecondUse(calendar)]
  /\ UNCHANGED <<loggedOut, tokenFile, calendar, initPromise, flow, port>>

\* CalendarClient.authenticate(): performOAuthFlow() first, whatever is in flight
CallAuthenticate(c, ext) ==
  /\ UNCHANGED helperVars
  /\ Fresh(c)
  /\ Room(1)
  /\ call' = [Started(c, "authenticate") EXCEPT ![c].pc = "login"]
  /\ flow' = [flow EXCEPT ![c] = NewFlow(port # 0 \/ ext)]
  /\ port' = IF port = 0 /\ ~ext THEN c ELSE port
  /\ UNCHANGED <<loggedOut, tokenFile, calendar, initPromise>>

\* CalendarClient.reauthenticate()
CallReauthenticate(c, ext) ==
  /\ UNCHANGED helperVars
  /\ Fresh(c)
  /\ LET r == EnsureResult(c, TRUE, Absent, Absent, initPromise,
                           Started(c, "reauthenticate"))
     IN /\ r.start => Room(1)
        /\ ext => r.start
        /\ tokenFile' = Absent
        /\ calendar' = r.cal
        /\ initPromise' = r.ip
        /\ call' = r.cl
        /\ flow' = IF r.start THEN [flow EXCEPT ![c] = NewFlow(port # 0 \/ ext)] ELSE flow
        /\ port' = IF r.start /\ port = 0 /\ ~ext THEN c ELSE port
  /\ UNCHANGED loggedOut

\* gcal index.ts, case 'logout': clearToken() only
LogoutTool(c) ==
  /\ UNCHANGED helperVars
  /\ Fresh(c)
  /\ tokenFile' = Absent
  /\ loggedOut' = TRUE
  /\ call' = [Started(c, "logout") EXCEPT ![c].pc = "done", ![c].out = "ok"]
  /\ UNCHANGED <<calendar, initPromise, flow, port>>

\* GmailClient.logout(): clearToken() and the handle is dropped
ClientLogout(c) ==
  /\ UNCHANGED helperVars
  /\ Fresh(c)
  /\ tokenFile' = Absent
  /\ calendar' = Absent
  /\ loggedOut' = TRUE
  /\ call' = [Started(c, "logout") EXCEPT ![c].pc = "done", ![c].out = "ok"]
  /\ UNCHANGED <<initPromise, flow, port>>

\* `await open(authUrl)` completes: the browser process was spawned, or not
OpenDone(c, ok) ==
  /\ UNCHANGED helperVars
  /\ flow[c].pc = "awaitOpen"
  /\ IF ok
     THEN LET f == [flow[c] EXCEPT !.pc = "awaitToken"]
          IN IF f.promise # "pending"
             THEN Return(c, f)
             ELSE /\ flow' = [flow EXCEPT ![c] = f]
                  /\ UNCHANGED <<loggedOut, tokenFile, calendar, initPromise, call>>
     ELSE LET d == DeliverResult(c, FALSE, Absent, "OpenFailed", tokenFile,
                                 calendar, initPromise, call)
          IN /\ flow' = [flow EXCEPT ![c].pc = "threw", ![c].thrown = "OpenFailed"]
             /\ tokenFile' = d.tf
             /\ calendar' = d.cal
             /\ initPromise' = d.ip
             /\ call' = d.cl
             /\ UNCHANGED loggedOut
  /\ UNCHANGED port

\* an HTTP request reaches the listener of flow c
ReqKinds == {"other", "error", "nocode", "code"}

Request(c, kind) ==
  /\ UNCHANGED helperVars
  /\ flow[c].server = "listening"
  /\ TotalReq + TotalStray < MaxReq
  /\ LET r == flow[c].nreq + 1 IN
     CASE kind = "other" ->
            /\ flow' = [flow EXCEPT ![c].n404 = @ + 1]
            /\ UNCHANGED <<loggedOut, tokenFile, calendar, initPromise, call, port>>
       [] kind = "code" ->
            /\ flow' = [flow EXCEPT ![c].nreq = r, ![c].pend = @ \cup {r},
                                    ![c].gets = @ + 1]
            /\ UNCHANGED <<loggedOut, tokenFile, calendar, initPromise, call, port>>
       [] OTHER ->
            /\ Settle(c, [flow[c] EXCEPT !.nreq = r, !.server = Closed(@)],
                      FALSE, Absent,
                      IF kind = "error" THEN "ProviderError" ELSE "NoCode", r)
            /\ port' = PortAfterClose(c)

\* what the token endpoint may answer for the code of request r of flow c
ExchangeCreds(c, r) ==
  { [access |-> ExchId(c, r), refresh |-> TRUE, exp |-> "fresh"],
    [access |-> MissingAccess, refresh |-> FALSE, exp |-> "none"] }

\* `await authClient.getToken(code)` of request r completes
ExchangeDone(c, r, ok, creds) ==
  /\ UNCHANGED helperVars
  /\ r \in flow[c].pend
  /\ Settle(c, [flow[c] EXCEPT !.pend = @ \ {r}, !.server = Closed(@),
                               !.page = IF ok THEN "success" ELSE @],
            ok, IF ok THEN creds ELSE Absent, IF ok THEN "" ELSE "ExchangeFailed", r)
  /\ port' = PortAfterClose(c)

\* A timer that fires after its own promise has settled touches only its own
\* closed server and settled promise; such firings are explored only while
\* another flow is in progress (the only place where they could be observed).
TimerMatters(c) ==
  \/ flow[c].promise = "pending"
  \/ flow[c].server = "listening"
  \/ \E d \in Calls \ {c} : flow[d].pc \in {"awaitOpen", "awaitToken"}

\* faulty variant: the timeout callback rejects but forgets server.close()
TimeoutHandlerNoClose(f) == [f EXCEPT !.timer = "fired"]

\* the setTimeout callback of startCallbackServer, before its reject(...)
TimeoutHandler(f) == [f EXCEPT !.timer = "fired", !.server = Closed(@)]

\* the setTimeout(..., 120000) callback of startCallbackServer fires
TimerFire(c) ==
  /\ UNCHANGED helperVars
  /\ flow[c].timer = "armed"
  /\ TimerMatters(c)
  /\ Settle(c, TimeoutHandler(flow[c]), FALSE, Absent, "Timeout", 0 - 1)
  /\ port' = PortAfter(c, TimeoutHandler(flow[c]))

\* faulty variant: the catch block of the refresh clears the stored token
StoredAfterRefreshCleared(ok, token, tf) == IF ok THEN token ELSE Absent

\* the token file after refreshAccessToken: saveToken(token) on success only
StoredAfterRefresh(ok, token, tf) == IF ok THEN token ELSE tf

\* what the refresh endpoint may answer to the attempt of call c
RefreshCreds(c) ==
  { [access |-> RefreshId(c), refresh |-> FALSE, exp |-> "fresh"],
    [access |-> MissingAccess, refresh |-> FALSE, exp |-> "none"] }

\* `await authClient.refreshAccessToken()` completes in getAuthenticatedClient
RefreshDone(c, ok, creds, ext) ==
  /\ UNCHANGED helperVars
  /\ call[c].pc = "refresh"
  /\ ext => (~ok /\ AfterRefreshFailed(call[c].auto) = "flow")
  /\ (~ok /\ AfterRefreshFailed(call[c].auto) = "flow") => CanStart
  /\ IF ok
     THEN LET token == RefreshedToken(call[c].tok, creds)
          IN /\ tokenFile' = StoredAfterRefresh(TRUE, token, tokenFile)
             /\ calendar' = token
             /\ initPromise' = 0
             /\ call' = SettleAttempt([call EXCEPT ![c].rf = "ok"], c, "ok")
             /\ loggedOut' = FALSE
             /\ UNCHANGED <<flow, port>>
     ELSE IF AfterRefreshFailed(call[c].auto) = "flow"
          THEN /\ call' = [call EXCEPT ![c].pc = "flow", ![c].rf = "failed"]
               /\ flow' = [flow EXCEPT ![c] = NewFlow(port # 0 \/ ext)]
               /\ port' = IF port = 0 /\ ~ext THEN c ELSE port
               /\ tokenFile' = StoredAfterRefresh(FALSE, call[c].tok, tokenFile)
               /\ UNCHANGED <<loggedOut, calendar, initPromise>>
          ELSE /\ initPromise' = 0
               /\ call' = SettleAttempt([call EXCEPT ![c].rf = "failed"], c,
                                        "NotAuthenticated")
               /\ tokenFile' = StoredAfterRefresh(FALSE, call[c].tok, tokenFile)
               /\ UNCHANGED <<loggedOut, calendar, flow, port>>

\* ------------------------------------------------ credential files on disk

\* Number of saves (writeFileSync calls) explored.
MaxSaves == 2
\* Number of runs of the command-line helper explored.
MaxRuns == 1
\* Number of HTTP requests that reach the helper's listener.
MaxCliReq == 2

\* permission bits of a directory entry; a mode is a set of them
PermBits == {"ur", "uw", "ux", "gr", "gw", "gx", "or", "ow", "ox"}
Mode600 == {"ur", "uw"}
Mode700 == {"ur", "uw", "ux"}
\* what fs.writeFileSync / fs.mkdirSync ask for when no mode is given
Mode666 == PermBits \ {"ux", "gx", "ox"}
Mode777 == PermBits
\* the process umask: 022 or 077
Umasks == { {"gw", "ow"}, PermBits \ Mode700 }
\* the mode an entry gets when it is created: mode & ~umask
Created(mode, umask) == mode \ umask

NoEntry == {"absent"}
Files == {"server", "cli"}
NoFile == [mode |-> NoEntry, data |-> <<>>]

\* w: whose writeFileSync is in progress; rec: the record it writes; before:
\* what a load returned when it began; crashed: the process died during the
\* last save; exposed: the file has been readable by group or others
NoStore == [umask |-> {}, dir |-> NoEntry, file |-> [f \in Files |-> NoFile],
            w |-> "idle", rec |-> Absent, before |-> Absent, crashed |-> "none",
            exposed |-> FALSE, nsave |-> 0]

\* JSON.stringify(token, null, 2): the text as a sequence of pieces
Stringify(rec) == << "{", rec.access, rec.refresh, rec.exp, "}" >>
TextLen == Len(Stringify(Absent))

\* JSON.parse: a record, or Absent when it throws (no proper prefix of the
\* text of an object is itself a JSON text)
ParseJson(data) ==
  IF Len(data) = TextLen
  THEN [access |-> data[2], refresh |-> data[3], exp |-> data[4]]
  ELSE Absent

\* loadStoredToken on the bytes of the file: null when the file does not
\* exist and when JSON.parse throws
ReadStoredToken(st, f) ==
  IF st.file[f].mode = NoEntry THEN Absent ELSE ParseJson(st.file[f].data)

\* the file exists and its content is not a record
Torn(st, f) == st.file[f].mode # NoEntry /\ ParseJson(st.file[f].data) = Absent

\* the record written by the n-th save
SavedRecord(n) == [access |-> n, refresh |-> TRUE, exp |-> "fresh"]

\* ensureConfigDir / fs.mkdirSync(dir, {recursive, mode}) when the directory
\* does not exist, then the open(O_WRONLY | O_CREAT | O_TRUNC, mode) of
\* fs.writeFileSync: an existing entry keeps the mode it has
OpenForWrite(st, f, dirMode, fileMode, rec) ==
  LET d == IF st.dir = NoEntry THEN Created(dirMode, st.umask) ELSE st.dir
      m == IF st.file[f].mode = NoEntry THEN Created(fileMode, st.umask)
           ELSE st.file[f].mode
  IN [st EXCEPT !.dir = d,
                !.file[f] = [mode |-> m, data |-> <<>>],
                !.w = f, !.rec = rec, !.before = ReadStoredToken(st, f),
                !.crashed = "none",
                !.exposed = @ \/ ~(m \subseteq Mode600) \/ ~(d \subseteq Mode700),
                !.nsave = @ + 1]

\* saveToken (auth.ts) / saveSession (Auxia): owner-only modes are asked for
SaveTokenOpen(st, rec) == OpenForWrite(st, "server", Mode700, Mode600, rec)

\* the helpers' mkdirSync(securityDir, {recursive: true}) and
\* writeFileSync(tokenPath, text): no mode is given
HelperSaveOpen(st, rec) == OpenForWrite(st, "cli", Mode777, Mode666, rec)

NoCli == [pc |-> "off", code |-> 0 - 1, browser |-> "none", nreq |-> 0,
          pend |-> 0, sent |-> {}, silent |-> 0, runs |-> 0]

outsideStore == <<loggedOut, tokenFile, calendar, initPromise, call, flow, port, aux, probe>>

\* the server process calls saveToken(token)
SaveToken ==
  /\ store.w = "idle"
  /\ store.nsave < MaxSaves
  /\ store' = SaveTokenOpen(store, SavedRecord(store.nsave + 1))
  /\ UNCHANGED cli
  /\ UNCHANGED outsideStore

\* one write(2) of writeFileSync: k more pieces of the text reach the file
WriteChunk(k) ==
  /\ store.w # "idle"
  /\ Len(store.file[store.w].data) + k <= TextLen
  /\ store' = [store EXCEPT !.file[store.w].data =
                 @ \o SubSeq(Stringify(store.rec), Len(@) + 1, Len(@) + k)]
  /\ UNCHANGED cli
  /\ UNCHANGED outsideStore

\* writeFileSync returns; the helper then prints and calls process.exit(0)
SaveDone ==
  /\ store.w # "idle"
  /\ Len(store.file[store.w].data) = TextLen
  /\ store' = [store EXCEPT !.w = "idle"]
  /\ cli' = IF store.w = "cli" THEN [cli EXCEPT !.pc = "exited", !.code = 0] ELSE cli
  /\ UNCHANGED outsideStore

\* the writing process is killed (or the machine stops) inside writeFileSync
Crash ==
  /\ store.w # "idle"
  /\ store' = [store EXCEPT !.w = "idle", !.crashed = store.w]
  /\ cli' = IF store.w = "cli" THEN [cli EXCEPT !.pc = "killed"] ELSE cli
  /\ UNCHANGED outsideStore

\* a StoredToken with all its fields (refresh 0: no refresh_token; access 0:
\* no access_token); NoToken: null, no file
NoToken == [access |-> 0 - 1, refresh |-> 0, exp |-> "none", scope |-> "", token_type |-> ""]

\* the outcome of a clear: the file afterwards and the error thrown, if any
NoCleared == [file |-> NoFile, err |-> ""]

\* fs.unlinkSync: removes the entry, throws ENOENT when there is none
UnlinkSync(file) ==
  IF file.mode # NoEntry THEN [file |-> NoFile, err |-> ""]
  ELSE [file |-> file, err |-> "ENOENT"]

\* faulty variant: unlinkSync without the existsSync test
ClearFileUnchecked(file) == UnlinkSync(file)

\* clearToken / clearSession: unlinkSync only if existsSync
ClearFile(file) ==
  IF file.mode # NoEntry THEN UnlinkSync(file) ELSE [file |-> file, err |-> ""]

\* the server process calls clearToken()
ClearToken ==
  /\ store.w = "idle"
  /\ store' = [store EXCEPT !.file["server"] = ClearFile(@).file, !.crashed = "none"]
  /\ UNCHANGED cli
  /\ UNCHANGED outsideStore

\* ------------------------------------- command-line auth helper (gmail, slack)

\* what the helper's request handler writes to the response, by kind of
\* request; "none": the handler returns without writing a response
HelperStatus(kind) ==
  CASE kind = "code"  -> 200
    [] kind = "other" -> 0
    [] OTHER          -> 400

\* `npm run auth`: authenticate() creates the server and calls listen; the
\* listen callback calls open(authUrl).catch(...).  With the port taken the
\* 'error' event has no listener and ends the process.
CliStart(busy) ==
  /\ cli.pc = "off"
  /\ cli.runs < MaxRuns
  /\ store.w = "idle"
  /\ cli' = IF busy
            THEN [cli EXCEPT !.pc = "exited", !.code = 1, !.runs = @ + 1]
            ELSE [cli EXCEPT !.pc = "listening", !.browser = "opening", !.runs = @ + 1]
  /\ UNCHANGED store
  /\ UNCHANGED outsideStore

\* open(authUrl) settles; its rejection is caught and only logged
CliOpenDone(ok) ==
  /\ cli.browser = "opening"
  /\ cli.pc \in {"listening", "saving"}
  /\ cli' = [cli EXCEPT !.browser = IF ok THEN "opened" ELSE "failed"]
  /\ UNCHANGED store
  /\ UNCHANGED outsideStore

\* a request reaches the helper's listener
CliRequest(kind) ==
  /\ cli.pc = "listening"
  /\ cli.nreq < MaxCliReq
  /\ LET c1 == [cli EXCEPT !.nreq = @ + 1,
                           !.sent = IF HelperStatus(kind) = 0 THEN @
                                    ELSE @ \cup {HelperStatus(kind)},
                           !.silent = IF HelperStatus(kind) = 0 THEN @ + 1 ELSE @]
     IN cli' = CASE kind = "code"  -> [c1 EXCEPT !.pend = @ + 1]
                 [] kind = "other" -> c1
                 [] OTHER          -> [c1 EXCEPT !.pc = "exited", !.code = 1]
  /\ UNCHANGED store
  /\ UNCHANGED outsideStore

\* `await oauth2Client.getToken(code)` settles.  On success the token is
\* written; on failure the catch block calls res.writeHead(500) on a response
\* that was already ended, which throws before process.exit(1): the process
\* ends or keeps listening, as the runtime treats the rejected handler.
CliExchangeDone(ok, dies) ==
  /\ cli.pc = "listening"
  /\ cli.pend > 0
  /\ store.w = "idle"
  /\ ok => store.nsave < MaxSaves
  /\ dies => ~ok
  /\ cli' = IF ok THEN [cli EXCEPT !.pend = @ - 1, !.pc = "saving"]
            ELSE IF dies THEN [cli EXCEPT !.pend = @ - 1, !.pc = "exited", !.code = 1]
            ELSE [cli EXCEPT !.pend = @ - 1]
  /\ store' = IF ok THEN HelperSaveOpen(store, SavedRecord(store.nsave + 1)) ELSE store
  /\ UNCHANGED outsideStore

\* ------------------------------------------------------------ expiry checks

\* Largest value of the clock explored (minutes).
MaxNow == 5
\* the look-ahead of isTokenExpired, 5 * 60 * 1000 ms, in minutes
FiveMinutes == 5
\* a record without expiry_date / expires_at
NoExpiry == 0 - 1
Instants == 0..(MaxNow + FiveMinutes + 2)

\* isTokenExpired(token) at the instant now (0 is falsy, like undefined)
IsTokenExpiredAt(expiry_date, now) ==
  IF expiry_date = NoExpiry \/ expiry_date = 0
  THEN TRUE
  ELSE expiry_date < now + FiveMinutes

\* the test of loadStoredSession, `new Date(session.expires_at) < new Date()`:
\* a comparison with an invalid Date is false
SessionExpiredAt(expires_at, now) ==
  IF expires_at = NoExpiry THEN FALSE ELSE expires_at < now

NoProbe == [pc |-> "none", expiry |-> NoExpiry, now |-> 0,
            token |-> FALSE, session |-> FALSE,
            provider |-> "none", param |-> <<>>, errors |-> <<>>,
            rec |-> Absent, file |-> NoFile, loaded |-> Absent,
            once |-> NoCleared, twice |-> NoCleared,
            current |-> NoToken, newTokens |-> NoToken, after |-> NoToken]

outsideProbe == <<loggedOut, tokenFile, calendar, initPromise, call, flow, port,
                  store, cli, aux>>

\* both providers check a record with the given expiry at the given instant
CheckExpiry ==
  /\ probe.pc = "asked"
  /\ probe' = [probe EXCEPT !.pc = "answered",
                            !.token = IsTokenExpiredAt(probe.expiry, probe.now),
                            !.session = SessionExpiredAt(probe.expiry, probe.now)]
  /\ UNCHANGED outsideProbe

\* ------------------------------------------- the errors of a failed login

\* Largest length of the `error` query parameter explored, in pieces of text.
MaxParamLen == 2

\* A message is a sequence of pieces of text; each literal of the source is
\* one piece, and the `error` parameter is any non-empty sequence of pieces
\* (an empty parameter is falsy and does not take the error branch).
TimeoutText == "Authentication timed out. Please try again."
Pieces == {"access_denied", "OAuth error: ", TimeoutText,
           "No authorization code received",
           "Missing token, cookie_name, or email in callback",
           "Port ${CALLBACK_PORT} is already in use."}
ErrorParams == UNION {[1..n -> Pieces] : n \in 1..MaxParamLen}

\* the message of the Error each failure rejects the login promise with; all
\* are plain Error objects, so the message is all a caller can go by
LoginErrors(provider, error) ==
  IF provider = "gcal"
  THEN [timeout   |-> <<TimeoutText>>,
        provider  |-> <<"OAuth error: ">> \o error,
        malformed |-> <<"No authorization code received">>,
        portinuse |-> <<"Port ${CALLBACK_PORT} is already in use.", " Please try again.">>]
  ELSE [timeout   |-> <<TimeoutText>>,
        provider  |-> error,
        malformed |-> <<"Missing token, cookie_name, or email in callback">>,
        portinuse |-> <<"Port ${CALLBACK_PORT} is already in use.",
                        " Set AUXIA_MCP_CALLBACK_PORT to use a different port.">>]

\* the four failures of one login, for the given `error` parameter
CheckErrors ==
  /\ probe.pc = "failing"
  /\ probe' = [probe EXCEPT !.pc = "failed",
                            !.errors = LoginErrors(probe.provider, probe.param)]
  /\ UNCHANGED outsideProbe

\* --------------------------------------------- Auxia: authenticateWithSession

\* Number of authenticateWithSession calls explored.
MaxLogins == 2
\* Number of HTTP requests that reach the Auxia listeners, over all logins.
MaxAuxReq == 2
Logins == 1..MaxLogins

\* saved: the handler of this login has called saveSession
NoLogin == [pc |-> "none", server |-> "none", promise |-> "pending", err |-> "",
            thrown |-> "", timer |-> "none", saved |-> FALSE, got |-> Absent,
            nreq |-> 0, n404 |-> 0]

\* session: content of session.json; port: the login whose server holds the port
\* env: AUXIA_MCP_SESSION_COOKIE (<<>> when unset or empty); cookie and client:
\* state.sessionCookie and the cookie of state.bffClient once createServer has
\* run its start-up code (<<>>: '' / no client)
NoAux == [session |-> Absent, port |-> 0, login |-> [l \in Logins |-> NoLogin],
          env |-> <<>>, started |-> FALSE, cookie |-> <<>>, client |-> <<>>]

\* faulty variant: the stored session is never used
LoadStoredSessionIgnored(session) == Absent

\* loadStoredSession: null when there is no file and when the session expired
LoadStoredSession(session) ==
  IF session # Absent /\ session.exp = "stale" THEN Absent ELSE session

\* the session record built by the request handler of login l
NewSession(l) == [access |-> 10 * l, refresh |-> FALSE, exp |-> "fresh"]

\* authenticateWithSession up to `await open(loginUrl)`, with the event of
\* server.listen that follows in the next tick
AuxFlowStart(busy) ==
  IF busy
  THEN [NoLogin EXCEPT !.pc = "awaitOpen", !.server = "failed", !.timer = "armed",
                       !.promise = "rejected", !.err = "PortInUse"]
  ELSE [NoLogin EXCEPT !.pc = "awaitOpen", !.server = "listening", !.timer = "armed"]

\* authenticateWithSession resumes after `await sessionPromise`
AuxReturn(f) ==
  IF f.promise = "resolved" THEN [f EXCEPT !.pc = "returned"]
  ELSE [f EXCEPT !.pc = "threw", !.thrown = f.err]

\* resolve(session) / reject(error) in startCallbackServer
AuxSettle(f, ok, session, err) ==
  IF f.promise # "pending" THEN f
  ELSE LET g == [f EXCEPT !.promise = IF ok THEN "resolved" ELSE "rejected",
                          !.got = session, !.err = err]
       IN IF g.pc = "awaitSession" THEN AuxReturn(g) ELSE g

outsideAux == <<loggedOut, tokenFile, calendar, initPromise, call, flow, port,
                store, cli, probe>>

\* `${cookie_name}=${session_cookie}` of a session
CookieOf(session) == <<"stored", session.access>>

\* faulty variant: an existing client is kept as it is
InitializeBFFClientKeep(a) ==
  IF a.cookie = <<>> \/ a.client # <<>> THEN a ELSE [a EXCEPT !.client = a.cookie]

\* context.initializeBFFClient: throws when state.sessionCookie is empty, else
\* replaces state.bffClient by a client built from state.sessionCookie
InitializeBFFClient(a) ==
  IF a.cookie = <<>> THEN a ELSE [a EXCEPT !.client = a.cookie]

\* handleAuthenticate after `await authenticateWithSession()`: a is the state
\* the step of login l leads to; if the login returned in it, the cookie of
\* its session is installed and the client rebuilt, if it threw nothing is done
HandleAuthenticate(l, a) ==
  IF a.login[l].pc = "returned" /\ aux.login[l].pc # "returned"
  THEN InitializeBFFClient([a EXCEPT !.cookie = CookieOf(a.login[l].got)])
  ELSE a

AuxRequests ==
  LET n == [l \in Logins |-> aux.login[l].nreq + aux.login[l].n404]
  IN SumOver(n, Logins)

\* authenticateWithSession() is called
AuxLogin(l, ext) ==
  /\ aux.login[l].pc = "none"
  /\ IF l = 1 THEN TRUE ELSE aux.login[l - 1].pc # "none"
  /\ LET existing == LoadStoredSession(aux.session)
     IN IF existing # Absent
        THEN /\ ~ext
             /\ aux' = HandleAuthenticate(l, [aux EXCEPT !.login[l] =
                          [NoLogin EXCEPT !.pc = "returned", !.got = existing]])
        ELSE aux' = [aux EXCEPT
                       !.login[l] = AuxFlowStart(aux.port # 0 \/ ext),
                       !.port = IF aux.port = 0 /\ ~ext THEN l ELSE @]
  /\ UNCHANGED outsideAux

\* `await open(loginUrl)` completes
AuxOpenDone(l, ok) ==
  /\ aux.login[l].pc = "awaitOpen"
  /\ LET f == aux.login[l]
     IN aux' = HandleAuthenticate(l, [aux EXCEPT !.login[l] =
                  IF ~ok THEN [f EXCEPT !.pc = "threw", !.thrown = "OpenFailed"]
                  ELSE IF f.promise # "pending" THEN AuxReturn([f EXCEPT !.pc = "awaitSession"])
                  ELSE [f EXCEPT !.pc = "awaitSession"]])
  /\ UNCHANGED outsideAux

AuxReqKinds == {"other", "error", "missing", "token"}

\* a request reaches the listener of login l; the handler has no await
AuxRequest(l, kind) ==
  /\ aux.login[l].server = "listening"
  /\ AuxRequests < MaxAuxReq
  /\ LET f == aux.login[l]
         c == [f EXCEPT !.nreq = @ + 1, !.server = "closed"]
         p == IF aux.port = l THEN 0 ELSE aux.port
     IN CASE kind = "other" ->
               aux' = [aux EXCEPT !.login[l].n404 = @ + 1]
          [] kind = "token" ->
               aux' = HandleAuthenticate(l, [aux EXCEPT
                         !.session = NewSession(l),
                         !.port = p,
                         !.login[l] = AuxSettle([c EXCEPT !.saved = TRUE], TRUE,
                                                NewSession(l), "")])
          [] OTHER ->
               aux' = [aux EXCEPT
                         !.port = p,
                         !.login[l] = AuxSettle(c, FALSE, Absent,
                                        IF kind = "error" THEN "ProviderError"
                                        ELSE "MissingParameters")]
  /\ UNCHANGED outsideAux

\* the setTimeout(..., 120000) callback of the Auxia startCallbackServer
AuxTimerFire(l) ==
  /\ aux.login[l].timer = "armed"
  /\ \/ aux.login[l].promise = "pending"
     \/ aux.login[l].server = "listening"
     \/ \E m \in Logins \ {l} : aux.login[m].pc \in {"awaitOpen", "awaitSession"}
  /\ LET f == aux.login[l]
     IN aux' = [aux EXCEPT
                  !.port = IF aux.port = l THEN 0 ELSE @,
                  !.login[l] = AuxSettle([f EXCEPT !.timer = "fired",
                                                   !.server = Closed(@)],
                                         FALSE, Absent, "Timeout")]
  /\ UNCHANGED outsideAux

\* clearSession: unlink session.json if it exists
ClearSession(session) == IF session # Absent THEN Absent ELSE session

\* the bff_logout tool (handleLogout): clearSession(), the cookie is emptied
\* and the client dropped, whatever login is in progress
AuxLogout ==
  /\ aux' = [aux EXCEPT !.session = ClearSession(@), !.cookie = <<>>, !.client = <<>>]
  /\ UNCHANGED outsideAux

\* the `cookie` argument of bff_set_session_cookie (<<>>: missing or empty)
ManualCookies == {<<>>, <<"manual", 1>>}

\* the bff_set_session_cookie tool (handleSetSessionCookie): throws on a
\* missing cookie, else installs it and rebuilds the client
AuxSetSessionCookie(cookie) ==
  /\ aux' = IF cookie = <<>> THEN aux
            ELSE InitializeBFFClient([aux EXCEPT !.cookie = cookie])
  /\ UNCHANGED outsideAux

\* a project/treatment tool (handleListTreatments) up to its first request
HandleListTreatments(a) ==
  IF a.client = <<>> THEN "Not authenticated. Use bff_authenticate first." ELSE "rpc"

\* ------------------------------------------------------- loading a record

\* the records a credential file may hold: expiry in the future, in the past,
\* or none
StoredRecords == [access : {1, 2}, refresh : BOOLEAN, exp : {"fresh", "stale", "none"}]

\* the file that holds the first k pieces of the text of rec
FileWith(rec, k) == [mode |-> Mode600, data |-> SubSeq(Stringify(rec), 1, k)]

\* loadStoredToken / loadStoredSession on a file: existsSync, readFileSync and
\* JSON.parse inside try/catch (a throw is logged and null returned); only
\* loadStoredSession looks at the expiry
LoadFile(provider, file) ==
  IF file.mode = NoEntry THEN Absent
  ELSE IF provider = "auxia" THEN LoadStoredSession(ParseJson(file.data))
  ELSE LoadStoredToken(ParseJson(file.data))

\* clear() is called on the file given, then once more, and then load()
CheckClear ==
  /\ probe.pc = "loading"
  /\ LET once == ClearFile(probe.file)
     IN probe' = [probe EXCEPT !.pc = "cleared",
                               !.once = once,
                               !.twice = ClearFile(once.file),
                               !.loaded = LoadFile(probe.provider, once.file)]
  /\ UNCHANGED outsideProbe

\* load() is called on the file given
CheckLoad ==
  /\ probe.pc = "loading"
  /\ probe' = [probe EXCEPT !.pc = "loaded",
                            !.loaded = LoadFile(probe.provider, probe.file)]
  /\ UNCHANGED outsideProbe

\* ------------------------------------------------- the 'tokens' handler

\* what loadStoredToken may return to the handler
FullTokens ==
  {NoToken} \cup [access : {1, 2}, refresh : {0, 1}, exp : {"fresh", "stale", "none"},
                  scope : {"calendar"}, token_type : {"Bearer"}]

\* the credentials of a 'tokens' event: any of the fields may be missing
EventTokens ==
  [access : {0, 3}, refresh : {0, 4}, exp : {"fresh", "none"},
   scope : {"calendar"}, token_type : {"Bearer"}]

\* faulty variant: the handler stores the credentials of the event as they are
OnTokensReplace(currentToken, newTokens) ==
  [access |-> newTokens.access, refresh |-> newTokens.refresh,
   exp |-> newTokens.exp, scope |-> "", token_type |-> ""]

\* authClient.on('tokens', ...): the file after the handler, given what
\* loadStoredToken returned; nothing is saved when it returned null
OnTokens(currentToken, newTokens) ==
  IF currentToken # NoToken
  THEN [currentToken EXCEPT
          !.access  = IF newTokens.access # 0 THEN newTokens.access ELSE @,
          !.exp     = newTokens.exp,
          !.refresh = IF newTokens.refresh # 0 THEN newTokens.refresh ELSE @]
  ELSE currentToken

\* a 'tokens' event is handled
CheckTokens ==
  /\ probe.pc = "emitted"
  /\ probe' = [probe EXCEPT !.pc = "handled",
                            !.after = OnTokens(probe.current, probe.newTokens)]
  /\ UNCHANGED outsideProbe

\* -------------------------------------------------- Auxia: server start-up

\* Number of values of the environment variable explored.
MaxEnv == 4

EnvCookies == {<<>>} \cup {<<"env", n>> : n \in 1..MaxEnv}

\* createServer up to the creation of the MCP server: the state starts from
\* the environment variable, then getCurrentSession() is consulted, and
\* initializeBFFClient builds the client from state.sessionCookie (the
\* BFFClient constructor only stores its options)
StartupState(env, session) ==
  LET existingSession == LoadStoredSession(session)
      sessionCookie == IF existingSession # Absent THEN CookieOf(existingSession)
                       ELSE env
  IN [cookie |-> sessionCookie, client |-> sessionCookie]

\* createServer(options) runs its start-up code
AuxCreateServer ==
  /\ ~aux.started
  /\ LET st == StartupState(aux.env, aux.session)
     IN aux' = [aux EXCEPT !.started = TRUE, !.cookie = st.cookie,
                           !.client = st.client]
  /\ UNCHANGED outsideAux

\* ------------------------------------------------------------------ claims

\* calls of ensureInitialized(true): by a tool operation or by reauthenticate()
EnsuresTrue == {c \in Calls : call[c].kind \in {"ensure", "reauthenticate"} /\ call[c].auto}
\* attempts started by such a call that found no stored record (unauthenticated)
UnauthAttempts == {a \in EnsuresTrue : call[a].att = a /\ call[a].tok = Absent}
FlowLive(c) == flow[c].pc \in {"awaitOpen", "awaitToken"}

\* C1: ensureInitialized(true) calls that overlap while the client is
\* unauthenticated all await one attempt: that attempt made one bind attempt and
\* opened one browser, the joiners made none, and every caller gets the outcome
\* of that attempt's login, at the same time.
C1_Dedup ==
  \A a \in UnauthAttempts :
    /\ flow[a].pc # "none"
    /\ \A c \in EnsuresTrue \ {a} :
         /\ (call[a].pc # "done" /\ call[c].pc # "done") => call[c].att = a
         /\ call[c].att = a =>
              /\ flow[c].pc = "none"
              /\ call[c].pc = "done" <=> call[a].pc = "done"
              /\ call[c].out = call[a].out
    /\ call[a].pc = "done" =>
         call[a].out = (IF flow[a].pc = "returned" THEN "ok" ELSE flow[a].thrown)

C1_Witness ==
  \E a \in UnauthAttempts, c \in EnsuresTrue :
    /\ c # a
    /\ call[c].att = a
    /\ call[c].kind = "ensure" /\ call[a].kind = "ensure"
    /\ call[a].pc = "done" /\ call[c].pc = "done"
    /\ call[a].out = "ok" /\ call[c].out = "ok"

\* C2: a login is never started while another login of the provider is in
\* flight (the later invocation awaits the earlier one instead).
C2_OneLoginInFlight ==
  \A c, d \in Calls : (c # d /\ FlowLive(c)) => ~FlowLive(d)

\* C3: whenever a flow has opened the browser, its listener had been confirmed
\* bound (the 'listening' event) at the moment open() was called.
C3_BoundBeforeOpen ==
  \A c \in Calls : flow[c].pc # "none" => flow[c].srvAtOpen = "listening"

\* C4: a second request to the callback path never decides the login: the
\* promise is settled by the first callback request, the timer or the bind
\* error, never by a later request.
C4_SecondRequestInert ==
  \A c \in Calls : flow[c].by <= 1

\* C5: within one login flow getToken is called at most once.
C5_OneExchange ==
  \A c \in Calls : flow[c].gets <= 1

\* the listener of flow c was bound and no request reached the callback path
BoundNoRedirect(c) == flow[c].srvAtOpen = "binding" /\ flow[c].nreq = 0
\* the callers that wait for the login of flow c
Awaiting(c) == {d \in Calls : d = c \/ (call[c].kind # "authenticate" /\ call[d].att = c)}

C7_ListenerGone ==
  \A c \in Calls :
    flow[c].pc \in {"returned", "threw"} => (flow[c].server # "listening" /\ port # c)

\* C8: an ensureInitialized(false) that is called and completes while the
\* client is logged out (logout done, nothing saved since) fails with the
\* not-authenticated error.
C8_LoggedOutStaysOut ==
  [][\A d \in Calls :
       (/\ loggedOut /\ loggedOut'
        /\ call[d].kind = "none"
        /\ call'[d].kind = "ensure" /\ ~call'[d].auto
        /\ call'[d].pc = "done")
       => call'[d].out = "NotAuthenticated"]_vars

\* C9: after a failed refresh of an expired record, getAuthenticatedClient(true)
\* goes on to an interactive login and getAuthenticatedClient(false) fails with
\* the not-authenticated error; the refresh is not retried and the client gets
\* ready only through that login.
C9_RefreshFallback ==
  \A c \in Calls :
    call[c].rf = "failed" =>
      /\ call[c].tok # Absent /\ call[c].tok.refresh /\ IsTokenExpired(call[c].tok)
      /\ call[c].pc \in {"flow", "done"}
      /\ call[c].auto =>
           /\ flow[c].pc # "none"
           /\ call[c].pc = "flow" <=> FlowLive(c)
           /\ (call[c].pc = "done" /\ call[c].out = "ok") => flow[c].pc = "returned"
      /\ ~call[c].auto =>
           /\ call[c].pc = "done"
           /\ call[c].out = "NotAuthenticated"
           /\ call[c].kind = "ensure" => flow[c].pc = "none"

C9_Witness ==
  \E c \in Calls :
    /\ call[c].rf = "failed"
    /\ call[c].auto
    /\ flow[c].pc = "returned"
    /\ call[c].out = "ok"
    /\ calendar = tokenFile /\ calendar.access = ExchId(c, 1)

\* C10: an ensureInitialized(true) that finds a stored record which is expired
\* and has no refresh token starts an interactive login, and does not make the
\* client ready from that record.
C10_ExpiredForcesLogin ==
  \A c \in Calls :
    (/\ call[c].kind = "ensure" /\ call[c].auto /\ call[c].att = c
     /\ call[c].tok # Absent /\ ~call[c].tok.refresh /\ IsTokenExpired(call[c].tok))
    => (flow[c].pc # "none" /\ calendar # call[c].tok)

RefreshFails(c) == call[c].rf # "failed" /\ call'[c].rf = "failed"
\* a step that overwrites or removes the token file on purpose
FileWriter ==
  \/ \E c \in Calls : flow[c].pc # "returned" /\ flow'[c].pc = "returned"
  \/ \E c \in Calls : call[c].rf # "ok" /\ call'[c].rf = "ok"
  \/ \E c \in Calls : call[c].kind = "none" /\ call'[c].kind \in {"logout", "reauthenticate"}

\* C13: the step in which a refresh fails leaves the token file as it is, and
\* the file changes only by a successful login, a successful refresh, a logout
\* or a reauthenticate.
C13_FailedRefreshKeepsFile ==
  [][/\ \A c \in Calls : RefreshFails(c) => tokenFile' = tokenFile
     /\ tokenFile' # tokenFile => FileWriter]_vars

C13_Witness ==
  \E c \in Calls :
    /\ call[c].rf = "failed"
    /\ call[c].pc = "done"
    /\ tokenFile # Absent /\ tokenFile = call[c].tok

C20_OpenFailureNonFatal ==
  \A c \in Calls : flow[c].thrown # "OpenFailed"

\* C12: a login that has ended in failure has not written the credential
\* file: the handler of a login that threw has never called saveSession.
C12_FailedLoginWritesNothing ==
  \A l \in Logins : aux.login[l].pc = "threw" => ~aux.login[l].saved

\* C14: after the server process died inside a save, the file is not torn and
\* a load returns the record that was there before the save, or null.
C14_AtomicSave ==
  store.crashed = "server" =>
    /\ ~Torn(store, "server")
    /\ ReadStoredToken(store, "server") \in {store.before, Absent}

\* C15: whenever a credential file exists it has mode 0600 in a directory of
\* mode 0700, and it has never been readable by group or others.
C15_OwnerOnly ==
  \A f \in Files :
    store.file[f].mode # NoEntry =>
      /\ store.file[f].mode = Mode600
      /\ store.dir = Mode700
      /\ ~store.exposed

\* C16: both expiry checks call a record expired when its expiry instant is
\* at or before now, and valid when it is more than five minutes after now.
C16_ExpiryClasses ==
  (probe.pc = "answered" /\ probe.expiry # NoExpiry) =>
    /\ probe.expiry <= probe.now => (probe.token /\ probe.session)
    /\ probe.expiry > probe.now + FiveMinutes => (~probe.token /\ ~probe.session)

\* C17: both expiry checks call a record without expiry instant expired.
C17_NoExpiryIsExpired ==
  (probe.pc = "answered" /\ probe.expiry = NoExpiry) =>
    (probe.token /\ probe.session)

\* C19: every request to a path other than the callback path is answered
\* (with 404): no listener leaves such a request without a response.
C19_OtherPathAnswered ==
  cli.silent = 0

\* C21: a reauthenticate() that has returned successfully got its outcome from
\* an attempt it started itself, after it cleared the stored credential: never
\* from an attempt that was already in flight when it was called.
C21_ReauthOwnAttempt ==
  \A c \in Calls :
    (call[c].kind = "reauthenticate" /\ call[c].pc = "done" /\ call[c].out = "ok")
    => (call[c].att = c /\ flow[c].pc = "returned")

\* the step in which the silent refresh of call c saves its renewed record
RefreshSaves(c) == call[c].rf # "ok" /\ call'[c].rf = "ok"

\* C22: when a silent refresh saves, the file still holds the record the
\* refresh started from (or has been cleared): no login saved a record between
\* the refresh reading the file and writing it, so the save of a flow that
\* started from an older record never replaces the record of a newer login.
C22_NoLostUpdate ==
  [][\A c \in Calls :
       RefreshSaves(c) => tokenFile \in {call[c].tok, Absent}]_vars

\* C23: the token file is absent or holds a record whose access token is one
\* the provider issued: a record with the empty access token is never stored.
C23_WellFormedRecord ==
  tokenFile = Absent \/ tokenFile.access > 0

\* the doInitialize attempt started by call a has not settled
Running(a) == call[a].att = a /\ call[a].pc \in {"refresh", "flow"}

\* C24: initPromise is set exactly while an attempt is running and names that
\* attempt; a caller waits on an attempt only while it runs (when it settles,
\* initiator and joiners are all released); and an ensureInitialized call made
\* with the marker clear and the client not ready runs an attempt of its own.
C24_MarkerCleared ==
  /\ [](/\ \A a \in Calls : Running(a) <=> initPromise = a
        /\ \A d \in Calls :
             call[d].pc = "joined" => (initPromise # 0 /\ call[d].att = initPromise))
  /\ [][\A d \in Calls :
         (/\ call[d].kind = "none"
          /\ call'[d].kind \in {"ensure", "reauthenticate"}
          /\ initPromise = 0
          /\ calendar = Absent \/ call'[d].kind = "reauthenticate")
         => (call'[d].att = d /\ call'[d].pc # "joined")]_vars

C24_Witness ==
  \E a, d, c \in Calls :
    /\ a # d /\ d # c /\ a # c
    /\ call[a].att = a /\ call[d].att = a
    /\ call[a].pc = "done" /\ call[d].pc = "done"
    /\ call[a].out = "NotAuthenticated" /\ call[d].out = "NotAuthenticated"
    /\ call[c].kind = "ensure" /\ Running(c) /\ initPromise = c
    /\ calendar = Absent

\* C25: the step in which the silent refresh of an expired record with a
\* refresh token succeeds stores the renewed record (the access token and
\* expiry of the response, the refresh token of the old record), makes the
\* client ready on it and releases the attempt, and binds no listener and
\* opens no browser: the call never has a login flow.
C25_SilentRefresh ==
  [][\A c \in Calls :
       RefreshSaves(c) =>
         /\ call[c].tok.refresh /\ IsTokenExpired(call[c].tok)
         /\ tokenFile' \in {RefreshedToken(call[c].tok, cr) : cr \in RefreshCreds(c)}
         /\ tokenFile'.refresh = call[c].tok.refresh
         /\ calendar' = tokenFile'
         /\ call'[c].pc = "done" /\ call'[c].out = "ok"
         /\ initPromise' = 0
         /\ flow' = flow /\ port' = port
         /\ flow[c].pc = "none"]_vars

C25_Witness ==
  \E c \in Calls :
    /\ call[c].rf = "ok" /\ call[c].pc = "done" /\ call[c].out = "ok"
    /\ tokenFile = [access |-> RefreshId(c), refresh |-> TRUE, exp |-> "fresh"]
    /\ calendar = tokenFile
    /\ \A d \in Calls : flow[d].pc = "none"
    /\ port = 0

\* the step in which the interactive login l returns its session to the caller
AuxReturns(l) ==
  /\ aux.login[l].pc # "returned" /\ aux'.login[l].pc = "returned"
  /\ aux'.login[l].saved

\* C26: when an interactive login returns, a load performed at that moment
\* gives the record the login returns.
C26_ReturnedIsStored ==
  [][\A l \in Logins :
       AuxReturns(l) => LoadStoredSession(aux'.session) = aux'.login[l].got]_vars

\* C27: the error of a login that timed out differs from the errors of a
\* provider error, a malformed callback and a port in use, whatever the value
\* of the `error` parameter.
C27_TimeoutDistinct ==
  probe.pc = "failed" =>
    probe.errors.timeout \notin
      {probe.errors.provider, probe.errors.malformed, probe.errors.portinuse}

\* C28: load returns null when the file is missing, when its content is not
\* the complete text of a record, and when the record's expiry is in the past;
\* otherwise it returns the record that was stored, unchanged.
C28_LoadFailsSoft ==
  probe.pc = "loaded" =>
    IF probe.file.mode = NoEntry THEN probe.loaded = Absent
    ELSE IF Len(probe.file.data) < TextLen THEN probe.loaded = Absent
    ELSE IF probe.rec.exp = "stale" THEN probe.loaded = Absent
    ELSE probe.loaded = probe.rec

\* C29: clear never throws; on a missing file it changes nothing; after it
\* the file does not exist and load returns null; and a second clear leaves
\* what the first one left.
C29_ClearIdempotent ==
  probe.pc = "cleared" =>
    /\ probe.once.err = "" /\ probe.twice.err = ""
    /\ probe.file.mode = NoEntry => probe.once.file = probe.file
    /\ probe.once.file.mode = NoEntry
    /\ probe.twice.file = probe.once.file
    /\ probe.loaded = Absent

C29_Witness ==
  /\ probe.pc = "cleared"
  /\ probe.file.mode = NoEntry
  /\ probe.once = [file |-> NoFile, err |-> ""]
  /\ probe.twice = probe.once

\* C30: after start-up with the environment variable set and a valid stored
\* session, the session cookie of the server is the value of the variable.
C30_EnvOverridesStored ==
  (aux.started /\ aux.env # <<>> /\ LoadStoredSession(aux.session) # Absent)
  => (aux.cookie = aux.env /\ aux.client = aux.env)

\* C31: an authenticateWithSession() call that finds an unexpired stored
\* session returns that session at once: no listener, no timer, no browser,
\* and the session file and the port are left as they are; a call that finds
\* no such session starts a login flow.
C31_ValidSessionReused ==
  [][\A l \in Logins :
       (aux.login[l].pc = "none" /\ aux'.login[l].pc # "none") =>
         IF aux.session # Absent /\ aux.session.exp # "stale"
         THEN /\ aux'.login[l] = [NoLogin EXCEPT !.pc = "returned", !.got = aux.session]
              /\ aux'.session = aux.session
              /\ aux'.port = aux.port
         ELSE /\ aux'.login[l].pc = "awaitOpen"
              /\ aux'.login[l].server \in {"listening", "failed"}
              /\ aux'.login[l].timer = "armed"]_vars

C31_Witness ==
  \E l \in Logins :
    /\ aux.login[l] = [NoLogin EXCEPT !.pc = "returned", !.got = aux.session]
    /\ aux.session # Absent /\ aux.session.exp = "fresh"
    /\ aux.port = 0

\* C32: an ensureInitialized(true) call never ends with the not-authenticated
\* error, and an ensureInitialized(false) call never waits on an attempt that
\* is in an interactive login.
C32_AutoPopupHonoured ==
  \A c \in Calls :
    call[c].kind = "ensure" =>
      /\ call[c].auto => call[c].out # "NotAuthenticated"
      /\ (~call[c].auto /\ call[c].pc = "joined") => ~FlowLive(call[c].att)

\* C33: while the logout is the last operation that was called, no token
\* file exists and the handle is null: nothing that began before the logout
\* stores a record or makes the client ready after it.
C33_LogoutSticks ==
  \A d \in Calls :
    (call[d].kind = "logout" /\ \A e \in Calls : e > d => call[e].kind = "none")
    => (tokenFile = Absent /\ calendar = Absent)

\* C34: a flow whose handler has sent the success page has a promise resolved
\* with credentials, and once it has ended it has returned them (and so saved
\* them): a flow that ended with an error never sent the success page.  (Flows
\* that ended because open() failed are left aside here.)
C34_SuccessPageMeansSuccess ==
  \A c \in Calls :
    (flow[c].page = "success" /\ flow[c].thrown # "OpenFailed") =>
      /\ flow[c].promise = "resolved"
      /\ flow[c].pc # "threw"

\* the step in which the timer of flow c fires after its promise has settled
LateTimer(c) ==
  /\ flow[c].timer = "armed" /\ flow'[c].timer = "fired"
  /\ flow[c].promise # "pending"

\* C35: a timer that fires after its flow's promise has settled changes
\* nothing but its own flow's timer and (if it was still open) its own
\* listener: the settled promise and the outcome delivered stay, no other
\* flow, no call, the file and the handle change, and the port is released
\* only if this flow's listener held it.
C35_LateTimerInert ==
  [][\A c \in Calls :
       LateTimer(c) =>
         /\ flow' = [flow EXCEPT ![c].timer = "fired", ![c].server = Closed(@)]
         /\ UNCHANGED <<loggedOut, tokenFile, calendar, initPromise, call>>
         /\ port # c => port' = port]_vars

C35_Witness ==
  \E c, d \in Calls :
    /\ c < d
    /\ flow[c].timer = "fired" /\ flow[c].err \notin {"", "Timeout"}
    /\ flow[c].pc = "threw"
    /\ flow[d].server = "listening" /\ port = d
    /\ flow[d].promise = "pending" /\ flow[d].timer = "armed"
    /\ flow[d].pc = "awaitToken"

\* C36: a 'tokens' event handled when no token file exists leaves no file;
\* when a record exists, the record saved has the event's access token (the
\* old one if the event has none), the event's expiry, the event's refresh
\* token if it has one and else the old one, and every other field as it was.
C36_TokensEventMerges ==
  probe.pc = "handled" =>
    IF probe.current = NoToken THEN probe.after = NoToken
    ELSE /\ probe.after.scope = probe.current.scope
         /\ probe.after.token_type = probe.current.token_type
         /\ probe.after.exp = probe.newTokens.exp
         /\ probe.after.access \in {probe.newTokens.access, probe.current.access} \ {0}
         /\ probe.newTokens.access # 0 => probe.after.access = probe.newTokens.access
         /\ probe.after.refresh \in {probe.newTokens.refresh, probe.current.refresh}
         /\ probe.newTokens.refresh # 0 => probe.after.refresh = probe.newTokens.refresh
         /\ probe.newTokens.refresh = 0 => probe.after.refresh = probe.current.refresh

C36_Witness ==
  /\ probe.pc = "handled"
  /\ probe.current = NoToken
  /\ probe.newTokens.access = 3
  /\ probe.after = NoToken

\* C37: an operation whose ensureInitialized() returned normally finds the
\* client handle set each time it reads it afterwards.
C37_HandleStaysSet ==
  \A c \in Calls : PassedEnsure(c) => call[c].op # "null"

\* C38: in the Auxia server, whenever there is a BFF client the session cookie
\* of the server is non-empty and is the cookie the client holds; and a
\* bff_logout leaves the cookie empty and no client, so that a treatment tool
\* fails with the not-authenticated error.
C38_ServerStateConsistent ==
  /\ [](aux.client # <<>> => (aux.cookie # <<>> /\ aux.client = aux.cookie))
  /\ [][AuxLogout =>
          /\ aux'.cookie = <<>>
          /\ aux'.client = <<>>
          /\ HandleListTreatments(aux') = "Not authenticated. Use bff_authenticate first."]_vars

C38_Witness ==
  /\ aux.started
  /\ \E l \in Logins : aux.login[l].pc = "returned" /\ aux.login[l].saved
  /\ aux.session = Absent
  /\ aux.cookie = <<>>
  /\ aux.client = <<>>

\* ------------------------------------------------------------ specifications

\* nothing outside the calendar client is in use
HelpersIdle ==
  /\ store = NoStore
  /\ cli = NoCli
  /\ aux = NoAux
  /\ probe = NoProbe

\* the calendar client is not in use
ClientIdle ==
  /\ loggedOut = FALSE
  /\ tokenFile = Absent
  /\ calendar = Absent
  /\ initPromise = 0
  /\ call = [c \in Calls |-> NoCall]
  /\ flow = [c \in Calls |-> NoFlow]
  /\ port = 0


Init ==
  /\ loggedOut = FALSE
  /\ tokenFile \in {Absent} \cup
       { [access |-> 1, refresh |-> TRUE, exp |-> "fresh"],
         [access |-> 1, refresh |-> TRUE, exp |-> "stale"],
         [access |-> 1, refresh |-> FALSE, exp |-> "stale"] }
  /\ calendar = Absent
  /\ initPromise = 0
  /\ call = [c \in Calls |-> NoCall]
  /\ flow = [c \in Calls |-> NoFlow]
  /\ port = 0
  /\ HelpersIdle

\* everything but the logout operation
Common ==
  \/ \E c \in Calls, a \in BOOLEAN, ext \in BOOLEAN : CallEnsure(c, a, ext)
  \/ \E c \in Calls, ext \in BOOLEAN : CallAuthenticate(c, ext)
  \/ \E c \in Calls, ext \in BOOLEAN : CallReauthenticate(c, ext)
  \/ \E c \in Calls, ok \in BOOLEAN : OpenDone(c, ok)
  \/ \E c \in Calls, k \in ReqKinds : Request(c, k)
  \/ \E c \in Calls, r \in 1..MaxReq :
        \/ \E creds \in ExchangeCreds(c, r) : ExchangeDone(c, r, TRUE, creds)
        \/ ExchangeDone(c, r, FALSE, Absent)
  \/ \E c \in Calls : TimerFire(c)
  \/ \E c \in Calls, ext \in BOOLEAN :
        \/ \E creds \in RefreshCreds(c) : RefreshDone(c, TRUE, creds, ext)
        \/ RefreshDone(c, FALSE, Absent, ext)
  \/ \E c \in Calls : OpResume(c)

\* the Google Calendar server: CalendarClient behind the tools of index.ts
Next ==
  \/ Common
  \/ \E c \in Calls : LogoutTool(c)

Spec == Init /\ [][Next]_vars

\* a server whose logout tool is the client's logout() method (GmailClient)
NextGmail ==
  \/ Common
  \/ \E c \in Calls : ClientLogout(c)

SpecGmail == Init /\ [][NextGmail]_vars

\* the credential directory, the server's saves and a run of a helper
InitStore ==
  /\ ClientIdle
  /\ store \in {[NoStore EXCEPT !.umask = u] : u \in Umasks}
  /\ cli = NoCli
  /\ aux = NoAux
  /\ probe = NoProbe

NextStore ==
  \/ SaveToken
  \/ \E k \in 1..TextLen : WriteChunk(k)
  \/ SaveDone
  \/ Crash
  \/ ClearToken
  \/ \E busy \in BOOLEAN : CliStart(busy)
  \/ \E ok \in BOOLEAN : CliOpenDone(ok)
  \/ \E k \in ReqKinds : CliRequest(k)
  \/ \E ok \in BOOLEAN, dies \in BOOLEAN : CliExchangeDone(ok, dies)

SpecStore == InitStore /\ [][NextStore]_vars

\* the expiry checks, for every expiry and instant in range
InitExpiry ==
  /\ ClientIdle
  /\ store = NoStore
  /\ cli = NoCli
  /\ aux = NoAux
  /\ probe \in {[NoProbe EXCEPT !.pc = "asked", !.expiry = e, !.now = n] :
                  e \in {NoExpiry} \cup Instants, n \in 0..MaxNow}

NextExpiry == CheckExpiry

SpecExpiry == InitExpiry /\ [][NextExpiry]_vars

\* the Auxia server: session file and logins
InitAuxia ==
  /\ ClientIdle
  /\ store = NoStore
  /\ cli = NoCli
  /\ probe = NoProbe
  /\ aux \in {[NoAux EXCEPT !.session = s] :
                s \in {Absent, [access |-> 1, refresh |-> FALSE, exp |-> "fresh"],
                       [access |-> 1, refresh |-> FALSE, exp |-> "stale"]}}

NextAuxia ==
  \/ \E l \in Logins, ext \in BOOLEAN : AuxLogin(l, ext)
  \/ \E l \in Logins, ok \in BOOLEAN : AuxOpenDone(l, ok)
  \/ \E l \in Logins, k \in AuxReqKinds : AuxRequest(l, k)
  \/ \E l \in Logins : AuxTimerFire(l)
  \/ AuxLogout

SpecAuxia == InitAuxia /\ [][NextAuxia]_vars

\* the errors of a failed login, for both providers and every `error` parameter
InitErrors ==
  /\ ClientIdle
  /\ store = NoStore
  /\ cli = NoCli
  /\ aux = NoAux
  /\ probe \in {[NoProbe EXCEPT !.pc = "failing", !.provider = p, !.param = e] :
                  p \in {"gcal", "auxia"}, e \in ErrorParams}

NextErrors == CheckErrors

\* the Auxia server starts, for every stored session and environment value
InitStartup ==
  /\ ClientIdle
  /\ store = NoStore
  /\ cli = NoCli
  /\ probe = NoProbe
  /\ aux \in {[NoAux EXCEPT !.session = s, !.env = e] :
                s \in {Absent} \cup StoredRecords, e \in EnvCookies}

NextStartup == AuxCreateServer

SpecStartup == InitStartup /\ [][NextStartup]_vars

\* the Auxia server from start-up on, with its three authentication tools
InitServer ==
  /\ ClientIdle
  /\ store = NoStore
  /\ cli = NoCli
  /\ probe = NoProbe
  /\ aux \in {[NoAux EXCEPT !.session = s, !.env = e] :
                s \in {Absent, [access |-> 1, refresh |-> FALSE, exp |-> "fresh"],
                       [access |-> 1, refresh |-> FALSE, exp |-> "stale"]},
                e \in {<<>>, <<"env", 1>>}}

NextServer ==
  \/ AuxCreateServer
  \/ aux.started /\ NextAuxia
  \/ aux.started /\ \E k \in ManualCookies : AuxSetSessionCookie(k)

SpecServer == InitServer /\ [][NextServer]_vars

SpecErrors == InitErrors /\ [][NextErrors]_vars

\* a 'tokens' event, for every stored record (or none) and every event
InitTokens ==
  /\ ClientIdle
  /\ store = NoStore
  /\ cli = NoCli
  /\ aux = NoAux
  /\ probe \in {[NoProbe EXCEPT !.pc = "emitted", !.current = t, !.newTokens = n] :
                  t \in FullTokens, n \in EventTokens}

NextTokens == CheckTokens

SpecTokens == InitTokens /\ [][NextTokens]_vars

\* load() and clear() on a missing file, on every prefix of a record's text
\* and on every complete record, for both providers
InitLoad ==
  /\ ClientIdle
  /\ store = NoStore
  /\ cli = NoCli
  /\ aux = NoAux
  /\ probe \in
       {[NoProbe EXCEPT !.pc = "loading", !.provider = p] : p \in {"gcal", "auxia"}}
       \cup {[NoProbe EXCEPT !.pc = "loading", !.provider = p, !.rec = r,
                             !.file = FileWith(r, k)] :
               p \in {"gcal", "auxia"}, r \in StoredRecords, k \in 0..TextLen}

NextLoad ==
  \/ CheckLoad
  \/ CheckClear

SpecLoad == InitLoad /\ [][NextLoad]_vars
====
